---- MODULE Spec2Model ----
(* Model of the Aura investigation pipeline: src/core/agents.py (the agents),   *)
(* src/core/graph.py (the compiled graph) and src/main.py (the stream loop).    *)
(* Python strings are sequences of one-character strings, so that lower(),      *)
(* strip(), title() and the substring test are computed character by character. *)
EXTENDS Integers, Sequences, FiniteSets, TLC

VARIABLES
    node,                    \* the node (agent) that runs, or "__start__", "__end__", "aborted"
    pc,                      \* position inside the running agent
    channels,                \* the graph's own record (a dict: key -> value)
    state,                   \* the dict the running agent was given
    update,                  \* the value the agent returned
    thread_state,            \* main.py's thread_state dict
    executed,                \* names of the nodes that have completed, in order
    all_found_documents,     \* web_search_agent local
    unique_urls,             \* web_search_agent local
    idx,                     \* loop position: angle number / document number
    all_extracted_entities,  \* entity_extraction_agent local
    all_relationships,       \* relationship_extraction_agent local
    calls,                   \* service requests and sleeps of the running agent, in order
    budget                   \* how many more items the service may return to the running agent

vars == <<node, pc, channels, state, update, thread_state, executed, all_found_documents,
          unique_urls, idx, all_extracted_entities, all_relationships, calls, budget>>

-----------------------------------------------------------------------------
(* Bounds of the model *)

\* documents the search service returns to one web_search_agent run, in total
MaxDocsReturned == 3
\* entities the extraction service returns to one entity_extraction_agent run, in total
MaxEntitiesReturned == 3
\* length of the document list a directly called agent is given
MaxDocs == 4
\* length of the raw entity list a directly called summarize_entities_agent is given
MaxRaw == 4
\* relationships the extraction service returns to one relationship_extraction_agent
\* run, in total
MaxRelationshipsReturned == 2

-----------------------------------------------------------------------------
(* Python str operations *)

UpperCase == <<"A","B","C","D","E","F","G","H","I","J","K","L","M",
               "N","O","P","Q","R","S","T","U","V","W","X","Y","Z">>
LowerCase == <<"a","b","c","d","e","f","g","h","i","j","k","l","m",
               "n","o","p","q","r","s","t","u","v","w","x","y","z">>
Whitespace == {" ", "\t", "\n"}
\* the character U+0131, LATIN SMALL LETTER DOTLESS I, written as a token
DotlessI == "U+0131"

IndexIn(c, alphabet) == CHOOSE i \in 1..Len(alphabet) : alphabet[i] = c
IsUpper(c) == \E i \in 1..Len(UpperCase) : UpperCase[i] = c
IsLower(c) == (\E i \in 1..Len(LowerCase) : LowerCase[i] = c) \/ c = DotlessI
IsCased(c) == IsUpper(c) \/ IsLower(c)

\* str.lower() of one character; the dotless i is already lower case
LowerChar(c) == IF IsUpper(c) THEN LowerCase[IndexIn(c, UpperCase)] ELSE c
\* the title-case mapping of one character; that of the dotless i is "I"
TitleChar(c) ==
    IF c = DotlessI THEN "I"
    ELSE IF \E i \in 1..Len(LowerCase) : LowerCase[i] = c
         THEN UpperCase[IndexIn(c, LowerCase)]
         ELSE c

RECURSIVE Lower(_)
Lower(s) == IF s = <<>> THEN <<>> ELSE <<LowerChar(Head(s))>> \o Lower(Tail(s))

RECURSIVE LStrip(_)
LStrip(s) == IF s # <<>> /\ Head(s) \in Whitespace THEN LStrip(Tail(s)) ELSE s
RECURSIVE RStrip(_)
RStrip(s) ==
    IF s # <<>> /\ s[Len(s)] \in Whitespace THEN RStrip(SubSeq(s, 1, Len(s) - 1)) ELSE s
Strip(s) == RStrip(LStrip(s))

\* str.title(): a character after a cased character is lower-cased, any other
\* character is title-cased
RECURSIVE TitleFrom(_, _)
TitleFrom(s, prevCased) ==
    IF s = <<>> THEN <<>>
    ELSE <<IF prevCased THEN LowerChar(Head(s)) ELSE TitleChar(Head(s))>>
         \o TitleFrom(Tail(s), IsCased(Head(s)))
Title(s) == TitleFrom(s, FALSE)

\* Python's `sub in s`
Contains(s, sub) ==
    \E i \in 0..(Len(s) - Len(sub)) : SubSeq(s, i + 1, i + Len(sub)) = sub

-----------------------------------------------------------------------------
(* Data: src/core/state.py *)

SubjectProfile(name) ==
    [name |-> name, entity_type |-> "person", dob |-> "1971-06-28",
     locations |-> <<"Texas, USA", "California, USA">>,
     keywords |-> <<"Tesla", "SpaceX", "lawsuit", "neuralink">>]

Document(url, title, raw_content) ==
    [url |-> url, title |-> title, raw_content |-> raw_content, source |-> "web"]

ExtractedEntity(name, type, url) ==
    [name |-> name, type |-> type, source_document_url |-> url]

SummarizedEntity(name, type, count, source_urls) ==
    [name |-> name, type |-> type, count |-> count, source_urls |-> source_urls]

Relationship(source_entity, target_entity, relationship_type, url) ==
    [source_entity |-> source_entity, target_entity |-> target_entity,
     relationship_type |-> relationship_type, source_document_url |-> url]

Risk(risk_type, details, url) ==
    [risk_type |-> risk_type, details |-> details, source_document_url |-> url]

-----------------------------------------------------------------------------
(* Inputs the model draws from *)

ElonMusk == <<"E","l","o","n"," ","M","u","s","k">>
TESLA    == <<"T","E","S","L","A">>
AcmeCorp == <<"A","c","m","e"," ","C","o","r","p">>
SubjectNames == {ElonMusk, TESLA, AcmeCorp}

TextSued    == <<"A","c","m","e"," ","S","u","e","d">>
TextLawsuit == <<"s","u","e","d",","," ","l","a","w","s","u","i","t",","," ","D","E","B","T">>
TextScandal == <<"C","o","u","r","t"," ","S","C","A","N","D","A","L">>
TextBraces  == <<"{","x","}">>
TextPlain   == <<"o","k">>

\* what the search service can return: two documents share url "u1"
SearchPool ==
    {Document("u1", "first", TextSued),
     Document("u1", "second", TextPlain),
     Document("u2", "third", TextBraces)}

Company   == <<"C","o","m","p","a","n","y">>
company   == <<"c","o","m","p","a","n","y">>
Person    == <<"P","e","r","s","o","n">>
Tesla     == <<"T","e","s","l","a">>
tesla     == <<"t","e","s","l","a">>
TeslaCaps == <<" ","T","E","S","L","A"," ">>
BetaInc   == <<"B","e","t","a"," ","I","n","c">>
Irmak     == <<"I","r","m","a","k">>
irmakTr   == <<DotlessI,"r","m","a","k">>

\* what the extraction service can return, and the raw entities a directly called
\* summarize_entities_agent is given
EntityPool ==
    {ExtractedEntity(Tesla, Company, "u1"),
     ExtractedEntity(tesla, company, "u1"),
     ExtractedEntity(TeslaCaps, Company, "u2"),
     ExtractedEntity(BetaInc, Company, "u2"),
     ExtractedEntity(Irmak, Person, "u1"),
     ExtractedEntity(irmakTr, Person, "u2")}

\* what the extraction service can return in a run of entity_extraction_agent
ExtractPool ==
    {ExtractedEntity(Tesla, Company, "u1"),
     ExtractedEntity(tesla, company, "u1"),
     ExtractedEntity(BetaInc, Company, "u2")}

\* the documents a directly called risk_analysis_agent is given
RiskPool ==
    {Document("u1", "first", TextSued),
     Document("u2", "second", TextLawsuit),
     Document("u3", "third", TextPlain),
     Document("u1", "fourth", TextScandal)}

\* the documents a directly called relationship_extraction_agent is given
RelDocPool ==
    {Document("u1", "first", TextSued),
     Document("u2", "third", TextBraces)}

\* what the extraction service can return in a run of relationship_extraction_agent:
\* the url of a triple is whatever the service wrote
RelPool ==
    {Relationship(AcmeCorp, Tesla, "SUED", "u1"),
     Relationship(AcmeCorp, Tesla, "SUED", "u2"),
     Relationship(Tesla, BetaInc, "ACQUIRED", "u9")}

\* the summaries a directly called relationship_extraction_agent is given
SummaryPool ==
    {<<>>,
     <<SummarizedEntity(Tesla, Company, 2, <<"u1", "u2">>),
       SummarizedEntity(BetaInc, Company, 1, <<"u2">>)>>}

RECURSIVE SeqsUpTo(_, _)
SeqsUpTo(S, n) ==
    IF n = 0 THEN {<<>>}
    ELSE LET shorter == SeqsUpTo(S, n - 1)
         IN  shorter \cup {Append(s, x) : s \in {t \in shorter : Len(t) = n - 1}, x \in S}

-----------------------------------------------------------------------------
(* web_search_agent: src/core/agents.py 24-110 *)

HighProfileNames == {<<"e","l","o","n"," ","m","u","s","k">>, <<"t","e","s","l","a">>}

search_angles == <<"legal_issues", "negative_press", "financial_distress">>

Call(op, query, ok, results) ==
    [op |-> op, query |-> query, ok |-> ok, results |-> results]

\* a variant that compares whole documents instead of urls
RECURSIVE AddResultsByDocument(_, _)
AddResultsByDocument(acc, results) ==
    IF results = <<>> THEN acc
    ELSE LET doc == Head(results)
         IN  IF doc \notin {acc.docs[i] : i \in 1..Len(acc.docs)}
             THEN AddResultsByDocument([docs |-> Append(acc.docs, doc),
                                        urls |-> acc.urls \cup {doc.url}], Tail(results))
             ELSE AddResultsByDocument(acc, Tail(results))

\* lines 64-67 and 98-101: keep each document whose url has not been seen.
\* acc is the pair of locals [docs |-> all_found_documents, urls |-> unique_urls]
RECURSIVE AddResults(_, _)
AddResults(acc, results) ==
    IF results = <<>> THEN acc
    ELSE LET doc == Head(results)
         IN  IF doc.url \notin acc.urls
             THEN AddResults([docs |-> Append(acc.docs, doc),
                              urls |-> acc.urls \cup {doc.url}], Tail(results))
             ELSE AddResults(acc, Tail(results))

\* a variant whose gate ignores what phase 1 found and the name
GateAlwaysOpen(found, subject) == TRUE

\* a variant that compares the name without lower-casing it
GateCaseSensitive(found, subject) ==
    Len(found) > 0 \/ subject.name \in HighProfileNames

\* a variant whose gate looks at what phase 1 found only
GateNeedsDocuments(found, subject) == Len(found) > 0

\* line 77
GateOpen(found, subject) ==
    Len(found) > 0 \/ Lower(subject.name) \in HighProfileNames

\* a variant whose failed request throws away the documents found so far
SearchRequestFailureDrops(query) ==
    \/ /\ calls' = Append(calls, Call("request", query, FALSE, <<>>))
       /\ all_found_documents' = <<>>
       /\ unique_urls' = {}
       /\ UNCHANGED budget
    \/ \E results \in SeqsUpTo(SearchPool, budget) :
         LET acc == AddResults([docs |-> all_found_documents, urls |-> unique_urls],
                               results)
         IN  /\ calls' = Append(calls, Call("request", query, TRUE, results))
             /\ all_found_documents' = acc.docs
             /\ unique_urls' = acc.urls
             /\ budget' = budget - Len(results)

\* lines 61-72 and 95-105: one structured search request. The call raises (caught,
\* nothing added) or returns a list of documents.
SearchRequest(query) ==
    \/ /\ calls' = Append(calls, Call("request", query, FALSE, <<>>))
       /\ UNCHANGED <<all_found_documents, unique_urls, budget>>
    \/ \E results \in SeqsUpTo(SearchPool, budget) :
         LET acc == AddResults([docs |-> all_found_documents, urls |-> unique_urls],
                               results)
         IN  /\ calls' = Append(calls, Call("request", query, TRUE, results))
             /\ all_found_documents' = acc.docs
             /\ unique_urls' = acc.urls
             /\ budget' = budget - Len(results)

\* lines 31-33: the locals of a fresh call
WebSearchEntry ==
    /\ node = "web_search" /\ pc = "entry"
    /\ all_found_documents' = <<>>
    /\ unique_urls' = {}
    /\ calls' = <<>>
    /\ budget' = MaxDocsReturned
    /\ pc' = "broad"
    /\ UNCHANGED <<all_relationships, node, channels, state, update, thread_state, executed, idx,
                   all_extracted_entities>>

\* lines 43-72: phase 1, one broad request
WebSearchBroad ==
    /\ node = "web_search" /\ pc = "broad"
    /\ SearchRequest("broad")
    /\ pc' = "gate"
    /\ UNCHANGED <<all_relationships, node, channels, state, update, thread_state, executed, idx,
                   all_extracted_entities>>

\* lines 77, 106-107: the phase-2 gate
WebSearchGate ==
    /\ node = "web_search" /\ pc = "gate"
    /\ IF GateOpen(all_found_documents, state["subject"])
       THEN pc' = "sleep" /\ idx' = 1
       ELSE pc' = "return" /\ idx' = idx
    /\ UNCHANGED <<all_relationships, node, channels, state, update, thread_state, executed,
                   all_found_documents, unique_urls, all_extracted_entities, calls,
                   budget>>

\* lines 89-90: the delay before each deep-search request
WebSearchSleep ==
    /\ node = "web_search" /\ pc = "sleep"
    /\ calls' = Append(calls, Call("sleep", search_angles[idx], TRUE, <<>>))
    /\ pc' = "deep"
    /\ UNCHANGED <<all_relationships, node, channels, state, update, thread_state, executed,
                   all_found_documents, unique_urls, idx, all_extracted_entities,
                   budget>>

\* a variant that waits before the first angle only: the next request follows at once
WebSearchDeepNoSleep ==
    /\ node = "web_search" /\ pc = "deep"
    /\ SearchRequest(search_angles[idx])
    /\ IF idx < Len(search_angles)
       THEN pc' = "deep" /\ idx' = idx + 1
       ELSE pc' = "return" /\ idx' = idx
    /\ UNCHANGED <<all_relationships, node, channels, state, update, thread_state, executed,
                   all_extracted_entities>>

\* lines 92-105: one deep-search request; then the next angle
WebSearchDeep ==
    /\ node = "web_search" /\ pc = "deep"
    /\ SearchRequest(search_angles[idx])
    /\ IF idx < Len(search_angles)
       THEN pc' = "sleep" /\ idx' = idx + 1
       ELSE pc' = "return" /\ idx' = idx
    /\ UNCHANGED <<all_relationships, node, channels, state, update, thread_state, executed,
                   all_extracted_entities>>

\* lines 109-110
WebSearchReturn ==
    /\ node = "web_search" /\ pc = "return"
    /\ update' = [k \in {"documents"} |-> all_found_documents]
    /\ pc' = "done"
    /\ UNCHANGED <<all_relationships, node, channels, state, thread_state, executed, all_found_documents,
                   unique_urls, idx, all_extracted_entities, calls, budget>>

-----------------------------------------------------------------------------
(* Python dict operations *)

EmptyDict == [k \in {} |-> {}]

\* d[k] = v
Put(d, k, v) == [x \in (DOMAIN d) \cup {k} |-> IF x = k THEN v ELSE d[x]]

\* a variant that only adds the keys d does not hold yet (setdefault for every key)
DictUpdateKeepsExisting(d, u) ==
    [x \in (DOMAIN d) \cup (DOMAIN u) |-> IF x \in DOMAIN d THEN d[x] ELSE u[x]]

\* d.update(u)
DictUpdate(d, u) ==
    [x \in (DOMAIN d) \cup (DOMAIN u) |-> IF x \in DOMAIN u THEN u[x] ELSE d[x]]

-----------------------------------------------------------------------------
(* entity_extraction_agent: src/core/agents.py 112-156 *)

\* constants.MAX_DOCS_TO_PROCESS (imported at line 10)
MAX_DOCS_TO_PROCESS == 3

\* a variant without the slice: every document is processed
LimitedDocumentsNoCap(documents) == documents

\* line 127: documents_to_process[:MAX_DOCS_TO_PROCESS]
LimitedDocuments(documents) ==
    SubSeq(documents, 1, IF Len(documents) < MAX_DOCS_TO_PROCESS
                         THEN Len(documents) ELSE MAX_DOCS_TO_PROCESS)

\* lines 133-141: the human message is an f-string holding the document's text and
\* the subject's name, and it is then parsed as a prompt template: a brace in it
\* is a template field that format_prompt(), called with no values, cannot fill.
TemplateFault(doc, subject) ==
    \E text \in {doc.raw_content, subject.name} :
        \E i \in 1..Len(text) : text[i] \in {"{", "}"}

\* lines 116-127
ExtractEntry ==
    /\ node = "entity_extraction" /\ pc = "entry"
    /\ all_extracted_entities' = <<>>
    /\ calls' = <<>>
    /\ budget' = MaxEntitiesReturned
    /\ idx' = 1
    /\ pc' = IF LimitedDocuments(state["documents"]) = <<>> THEN "return" ELSE "extract"
    /\ UNCHANGED <<all_relationships, node, channels, state, update, thread_state, executed,
                   all_found_documents, unique_urls>>

\* a variant whose failed request throws away what was extracted so far
ExtractRequestFailureDrops ==
    \/ /\ calls' = Append(calls, Call("request", idx, FALSE, <<>>))
       /\ all_extracted_entities' = <<>>
       /\ UNCHANGED budget
    \/ \E entities \in SeqsUpTo(ExtractPool, budget) :
         /\ calls' = Append(calls, Call("request", idx, TRUE, entities))
         /\ all_extracted_entities' = all_extracted_entities \o entities
         /\ budget' = budget - Len(entities)

\* lines 143-151: one structured extraction request. The call raises (caught,
\* nothing added) or returns a list of entities.
ExtractRequest ==
    \/ /\ calls' = Append(calls, Call("request", idx, FALSE, <<>>))
       /\ UNCHANGED <<all_extracted_entities, budget>>
    \/ \E entities \in SeqsUpTo(ExtractPool, budget) :
         /\ calls' = Append(calls, Call("request", idx, TRUE, entities))
         /\ all_extracted_entities' = all_extracted_entities \o entities
         /\ budget' = budget - Len(entities)

\* lines 130-151: one iteration of the loop over limited_documents
ExtractDocument ==
    /\ node = "entity_extraction" /\ pc = "extract"
    /\ LET limited_documents == LimitedDocuments(state["documents"])
       IN  IF TemplateFault(limited_documents[idx], state["subject"])
           THEN /\ node' = "aborted"
                /\ UNCHANGED <<pc, idx, all_extracted_entities, calls, budget>>
           ELSE /\ ExtractRequest
                /\ node' = node
                /\ idx' = idx + 1
                /\ pc' = IF idx < Len(limited_documents) THEN "extract" ELSE "return"
    /\ UNCHANGED <<all_relationships, channels, state, update, thread_state, executed,
                   all_found_documents, unique_urls>>

\* lines 153-156
ExtractReturn ==
    /\ node = "entity_extraction" /\ pc = "return"
    /\ update' = [k \in {"extracted_entities"} |-> all_extracted_entities]
    /\ pc' = "done"
    /\ UNCHANGED <<all_relationships, node, channels, state, thread_state, executed, all_found_documents,
                   unique_urls, idx, all_extracted_entities, calls, budget>>

-----------------------------------------------------------------------------
(* summarize_entities_agent: src/core/agents.py 158-193 *)

\* line 171
EntityKey(entity) == <<Lower(Strip(entity.name)), Lower(entity.type)>>

\* a variant that counts a mention only when its url is new for the key
RECURSIVE AggregateCountsUrls(_, _)
AggregateCountsUrls(acc, raw_entities) ==
    IF raw_entities = <<>> THEN acc
    ELSE LET entity == Head(raw_entities)
             key == EntityKey(entity)
             old == IF key \in DOMAIN acc.data THEN acc.data[key]
                    ELSE [count |-> 0, urls |-> {}]
             new == [count |-> IF entity.source_document_url \in old.urls
                               THEN old.count ELSE old.count + 1,
                     urls |-> old.urls \cup {entity.source_document_url}]
         IN  AggregateCountsUrls([keys |-> IF key \in DOMAIN acc.data THEN acc.keys
                                           ELSE Append(acc.keys, key),
                                  data |-> Put(acc.data, key, new)],
                                 Tail(raw_entities))

\* lines 168-173: the defaultdict, as the keys in insertion order and the
\* accumulator of each key
RECURSIVE Aggregate(_, _)
Aggregate(acc, raw_entities) ==
    IF raw_entities = <<>> THEN acc
    ELSE LET entity == Head(raw_entities)
             key == EntityKey(entity)
             old == IF key \in DOMAIN acc.data THEN acc.data[key]
                    ELSE [count |-> 0, urls |-> {}]
             new == [count |-> old.count + 1,
                     urls |-> old.urls \cup {entity.source_document_url}]
         IN  Aggregate([keys |-> IF key \in DOMAIN acc.data THEN acc.keys
                                 ELSE Append(acc.keys, key),
                        data |-> Put(acc.data, key, new)],
                       Tail(raw_entities))

aggregated_data(raw_entities) == Aggregate([keys |-> <<>>, data |-> EmptyDict], raw_entities)

\* line 183: list(a set) enumerates the set in an order the language leaves open
ListsOfSet(S) ==
    {l \in SeqsUpTo(S, Cardinality(S)) :
        Len(l) = Cardinality(S) /\ {l[i] : i \in 1..Len(l)} = S}

\* one enumeration order for the url set of every key
UrlOrders(agg) ==
    LET n == Len(agg.keys)
        all == UNION {ListsOfSet(agg.data[agg.keys[i]].urls) : i \in 1..n}
    IN  {o \in [1..n -> all] :
            \A i \in 1..n : o[i] \in ListsOfSet(agg.data[agg.keys[i]].urls)}

\* a variant whose count is the number of urls of the key
SummarizedListCountsUrls(agg, order) ==
    [i \in 1..Len(agg.keys) |->
        SummarizedEntity(Title(agg.keys[i][1]), Title(agg.keys[i][2]),
                         Len(order[i]), order[i])]

\* lines 176-185
SummarizedList(agg, order) ==
    [i \in 1..Len(agg.keys) |->
        SummarizedEntity(Title(agg.keys[i][1]), Title(agg.keys[i][2]),
                         agg.data[agg.keys[i]].count, order[i])]

\* a variant of the sort that puts an element in front of the elements of equal count
InsertBeforeTies(sorted, x) ==
    LET n == Cardinality({i \in 1..Len(sorted) : sorted[i].count > x.count})
    IN  SubSeq(sorted, 1, n) \o <<x>> \o SubSeq(sorted, n + 1, Len(sorted))

\* line 188: list.sort(key=count, reverse=True) is stable: an element goes behind
\* every element already placed whose count is not smaller
InsertByCount(sorted, x) ==
    LET n == Cardinality({i \in 1..Len(sorted) : sorted[i].count >= x.count})
    IN  SubSeq(sorted, 1, n) \o <<x>> \o SubSeq(sorted, n + 1, Len(sorted))

RECURSIVE SortFrom(_, _)
SortFrom(sorted, rest) ==
    IF rest = <<>> THEN sorted
    ELSE SortFrom(InsertByCount(sorted, Head(rest)), Tail(rest))

SortByCount(list) == SortFrom(<<>>, list)

\* a variant that empties the raw entity list once it has summarized it
SummarizeEntitiesClearsRaw ==
    /\ node = "summarize_entities" /\ pc = "entry"
    /\ LET agg == aggregated_data(state["extracted_entities"])
       IN  \E order \in UrlOrders(agg) :
             /\ state' = Put(Put(state, "summarized_entities",
                                 SortByCount(SummarizedList(agg, order))),
                             "extracted_entities", <<>>)
             /\ update' = state'
    /\ pc' = "done"
    /\ UNCHANGED <<all_relationships, node, channels, thread_state, executed, all_found_documents,
                   unique_urls, idx, all_extracted_entities, calls, budget>>

\* lines 164-193: the agent writes into the dict it was given and returns that dict
SummarizeEntities ==
    /\ node = "summarize_entities" /\ pc = "entry"
    /\ LET agg == aggregated_data(state["extracted_entities"])
       IN  \E order \in UrlOrders(agg) :
             /\ state' = Put(state, "summarized_entities",
                             SortByCount(SummarizedList(agg, order)))
             /\ update' = state'
    /\ pc' = "done"
    /\ UNCHANGED <<all_relationships, node, channels, thread_state, executed, all_found_documents,
                   unique_urls, idx, all_extracted_entities, calls, budget>>

-----------------------------------------------------------------------------
(* The compiled graph, src/core/graph.py, driven by src/main.py *)

\* graph.py 9-11
Nodes == {"web_search", "entity_extraction", "summarize_entities"}

\* a variant of the edges that leaves the graph after entity extraction
NextNodeSkipsSummarize(n) ==
    CASE n = "web_search" -> "entity_extraction"
      [] n = "entity_extraction" -> "__end__"
      [] n = "summarize_entities" -> "__end__"

\* graph.py 17-19
NextNode(n) ==
    CASE n = "web_search" -> "entity_extraction"
      [] n = "entity_extraction" -> "summarize_entities"
      [] n = "summarize_entities" -> "__end__"

\* main.py 36-41
InitialThreadState(subject) ==
    [subject |-> subject, documents |-> <<>>, extracted_entities |-> <<>>,
     summarized_entities |-> <<>>]

NoLocals ==
    /\ all_found_documents = <<>>
    /\ unique_urls = {}
    /\ idx = 0
    /\ all_extracted_entities = <<>>
    /\ all_relationships = <<>>
    /\ calls = <<>>
    /\ budget = 0
    /\ update = EmptyDict
    /\ executed = <<>>

\* main.py 26-46: app.stream(thread_state)
Init ==
    /\ \E name \in SubjectNames :
         /\ thread_state = InitialThreadState(SubjectProfile(name))
         /\ channels = thread_state
    /\ state = EmptyDict
    /\ node = "__start__"
    /\ pc = "idle"
    /\ NoLocals

\* graph.py 14: the entry point gets the input
GraphStart ==
    /\ node = "__start__"
    /\ node' = "web_search"
    /\ pc' = "entry"
    /\ state' = channels
    /\ UNCHANGED <<all_relationships, channels, update, thread_state, executed, all_found_documents,
                   unique_urls, idx, all_extracted_entities, calls, budget>>

\* A node has returned: the graph writes the returned keys into its record and
\* streams {node: update}; main.py 46-55 merges it with thread_state.update(value);
\* the graph follows the node's edge.
NodeDone ==
    /\ node \in Nodes /\ pc = "done"
    /\ channels' = DictUpdate(channels, update)
    /\ thread_state' = DictUpdate(thread_state, update)
    /\ executed' = Append(executed, node)
    /\ node' = NextNode(node)
    /\ pc' = IF node' = "__end__" THEN "idle" ELSE "entry"
    /\ state' = IF node' = "__end__" THEN state ELSE channels'
    /\ UNCHANGED <<all_relationships, update, all_found_documents, unique_urls, idx,
                   all_extracted_entities, calls, budget>>

WebSearch ==
    \/ WebSearchEntry \/ WebSearchBroad \/ WebSearchGate
    \/ WebSearchSleep \/ WebSearchDeep \/ WebSearchReturn

EntityExtraction == ExtractEntry \/ ExtractDocument \/ ExtractReturn

Next ==
    \/ GraphStart
    \/ WebSearch
    \/ EntityExtraction
    \/ SummarizeEntities
    \/ NodeDone

Spec == Init /\ [][Next]_vars

-----------------------------------------------------------------------------
(* entity_extraction_agent called on a given record *)

ExtractInit ==
    /\ \E documents \in SeqsUpTo(SearchPool, MaxDocs) :
         state = [InitialThreadState(SubjectProfile(AcmeCorp))
                    EXCEPT !["documents"] = documents]
    /\ channels = state
    /\ thread_state = state
    /\ node = "entity_extraction"
    /\ pc = "entry"
    /\ NoLocals

ExtractSpec == ExtractInit /\ [][EntityExtraction]_vars

-----------------------------------------------------------------------------
(* summarize_entities_agent called on a given record *)

SummarizeInit ==
    /\ \E raw_entities \in SeqsUpTo(EntityPool, MaxRaw) :
         state = [InitialThreadState(SubjectProfile(AcmeCorp))
                    EXCEPT !["extracted_entities"] = raw_entities]
    /\ channels = state
    /\ thread_state = state
    /\ node = "summarize_entities"
    /\ pc = "entry"
    /\ NoLocals

SummarizeSpec == SummarizeInit /\ [][SummarizeEntities]_vars

-----------------------------------------------------------------------------
(* Properties of web_search_agent *)

\* the documents the service returned to the running agent, in request order
RECURSIVE Returned(_)
Returned(log) ==
    IF log = <<>> THEN <<>>
    ELSE (IF Head(log).op = "request" /\ Head(log).ok THEN Head(log).results ELSE <<>>)
         \o Returned(Tail(log))

\* the deep-search requests of the log, as the angles asked for, in order
RECURSIVE DeepRequests(_)
DeepRequests(log) ==
    IF log = <<>> THEN <<>>
    ELSE (IF Head(log).op = "request" /\ Head(log).query # "broad"
          THEN <<Head(log).query>> ELSE <<>>)
         \o DeepRequests(Tail(log))

Sleeps(log) == {i \in 1..Len(log) : log[i].op = "sleep"}

SearchFinished == node = "web_search" /\ pc = "done"

\* phase 1 is over and its request gave no document (it failed or returned none)
Phase1Empty ==
    /\ node = "web_search" /\ calls # <<>>
    /\ calls[1].query = "broad"
    /\ ~calls[1].ok \/ calls[1].results = <<>>

Phase1NonEmpty ==
    /\ node = "web_search" /\ calls # <<>>
    /\ calls[1].query = "broad"
    /\ calls[1].ok /\ calls[1].results # <<>>

\* the subject's name equals an allow-list entry up to letter case
NameOnAllowList ==
    \E entry \in HighProfileNames : Lower(state["subject"].name) = Lower(entry)

\* C1: when web_search_agent has returned, its `documents` holds no two entries
\* with the same url, holds an entry for every url the service returned, and the
\* entry of a url is the first document with that url in request order.
C1_DocumentDedup ==
    SearchFinished =>
        LET docs == update["documents"]
            returned == Returned(calls)
        IN  /\ \A i, j \in 1..Len(docs) : i # j => docs[i].url # docs[j].url
            /\ \A k \in 1..Len(returned) :
                 \E i \in 1..Len(docs) : docs[i].url = returned[k].url
            /\ \A i \in 1..Len(docs) :
                 \E k \in 1..Len(returned) :
                    /\ returned[k] = docs[i]
                    /\ \A m \in 1..(k - 1) : returned[m].url # docs[i].url

\* a url was returned twice with different documents, in one response and again in
\* a later one, and the agent has returned
C1_Witness ==
    /\ SearchFinished
    /\ \E a, b \in 1..Len(calls) :
         /\ a < b
         /\ Len(calls[a].results) = 2
         /\ calls[a].results[1].url = calls[a].results[2].url
         /\ calls[a].results[1] # calls[a].results[2]
         /\ Len(calls[b].results) = 1
         /\ calls[b].results[1] = calls[a].results[2]

\* C5: if phase 1 gave no document and the lower-cased name is not on the
\* allow-list, there is no deep-search request and no wait, and the agent's
\* `documents` is empty.
C5_GateClosed ==
    (Phase1Empty /\ ~NameOnAllowList) =>
        /\ Len(calls) = 1
        /\ DeepRequests(calls) = <<>>
        /\ Sleeps(calls) = {}
        /\ all_found_documents = <<>>
        /\ pc \in {"gate", "return", "done"}
        /\ pc = "done" => update["documents"] = <<>>

\* the broad request failed for a name that is not on the list, and the agent returned
C5_Witness ==
    /\ SearchFinished
    /\ Phase1Empty /\ ~calls[1].ok
    /\ state["subject"].name = AcmeCorp

\* C6: when the agent has returned, all deep-search angles were requested, in
\* their order, if phase 1 gave a document or the name is on the allow-list in any
\* letter case; otherwise none was requested.
C6_GateIff ==
    SearchFinished =>
        IF Phase1NonEmpty \/ NameOnAllowList
        THEN DeepRequests(calls) = search_angles
        ELSE DeepRequests(calls) = <<>>

\* phase 1 gave nothing, the name is an allow-list name in capitals, and the three
\* angles were requested
C6_Witness ==
    /\ SearchFinished
    /\ Phase1Empty
    /\ state["subject"].name = TESLA
    /\ DeepRequests(calls) = search_angles

\* phase 1 gave a document for a name that is not on the allow-list, and the three
\* angles were requested
C6_WitnessNonEmpty ==
    /\ SearchFinished
    /\ Phase1NonEmpty
    /\ state["subject"].name = AcmeCorp
    /\ DeepRequests(calls) = search_angles

-----------------------------------------------------------------------------
(* Properties of entity_extraction_agent *)

ExtractFinished == node = "entity_extraction" /\ pc = "done"

\* C2: when entity_extraction_agent has returned, every processed document was
\* requested once, in order, and `extracted_entities` is the concatenation, in
\* that order, of the entities of the requests that did not fail; a failed request
\* adds nothing and removes nothing. The agent stops short of returning only at a
\* document whose text holds a template brace, never because a request failed.
C2_FailureIsolation ==
    LET limited == LimitedDocuments(state["documents"])
    IN  /\ ExtractFinished =>
            /\ Len(calls) = Len(limited)
            /\ \A i \in 1..Len(calls) : calls[i].op = "request" /\ calls[i].query = i
            /\ update["extracted_entities"] = Returned(calls)
        /\ (node = "entity_extraction" /\ pc \in {"extract", "return"}) =>
            all_extracted_entities = Returned(calls)
        /\ node = "aborted" =>
            \E i \in 1..Len(limited[idx].raw_content) :
                limited[idx].raw_content[i] \in {"{", "}"}

\* document 2 of 3 failed, documents 1 and 3 gave entities, and the agent returned
C2_Witness ==
    /\ ExtractFinished
    /\ Len(calls) = 3
    /\ calls[1].ok /\ calls[1].results # <<>>
    /\ ~calls[2].ok
    /\ calls[3].ok /\ calls[3].results # <<>>
    /\ update["extracted_entities"] = calls[1].results \o calls[3].results

-----------------------------------------------------------------------------
(* Properties of the compiled pipeline *)

FiveStages ==
    <<"web_search", "entity_extraction", "summarize_entities",
      "relationship_extraction", "risk_analysis">>

CompiledStages == <<"web_search", "entity_extraction", "summarize_entities">>

\* C3 as claimed: at the terminal state the five stages have run, in order, once
\* each, and `relationships` and `risks` have been computed.
C3_FiveStagesRun ==
    node = "__end__" =>
        /\ executed = FiveStages
        /\ {"relationships", "risks"} \subseteq DOMAIN thread_state

\* C3 amended: the stages that have completed are always a prefix of Search,
\* Entity Extraction, Entity Summarization, the node that runs is the next one of
\* that order, the terminal state is reached only after all three, and no run
\* computes `relationships` or `risks`.
C3_CompiledStagesRun ==
    /\ \E n \in 0..Len(CompiledStages) : executed = SubSeq(CompiledStages, 1, n)
    /\ node \in Nodes => node = CompiledStages[Len(executed) + 1]
    /\ node = "__end__" => executed = CompiledStages
    /\ "relationships" \notin DOMAIN thread_state
    /\ "risks" \notin DOMAIN thread_state

\* a run is at the terminal state with documents, entities and a summary
C3_Witness ==
    /\ node = "__end__"
    /\ thread_state["documents"] # <<>>
    /\ thread_state["extracted_entities"] # <<>>
    /\ thread_state["summarized_entities"] # <<>>

\* C4 as claimed: every run goes on until the terminal state: a state that is not
\* the terminal state has a next step, whatever requests failed.
C4_RunReachesEnd == node = "__end__" \/ ENABLED Next

-----------------------------------------------------------------------------
(* Properties of summarize_entities_agent *)

SummarizeFinished == node = "summarize_entities" /\ pc = "done"

\* the normalized key of a raw entity or of a summarized record: the name trimmed
\* and lower-cased, the type lower-cased
NormalizedKey(r) == <<Lower(Strip(r.name)), Lower(r.type)>>

\* the raw entities the agent was called with
RawEntities == channels["extracted_entities"]

\* the normalized key of every raw entity, by position
RawKeyAt == [i \in 1..Len(RawEntities) |-> NormalizedKey(RawEntities[i])]

KeysOf(keyAt) == {keyAt[i] : i \in DOMAIN keyAt}

Mentions(keyAt, k) == {i \in DOMAIN keyAt : keyAt[i] = k}

FirstMention(keyAt, k) ==
    CHOOSE i \in Mentions(keyAt, k) : \A m \in Mentions(keyAt, k) : i <= m

\* C7 as claimed: the list the agent returns holds no two records with the same
\* normalized key, and as many records as the raw entities have distinct
\* normalized keys.
C7_UniqueNormalizedKeys ==
    SummarizeFinished =>
        LET out == update["summarized_entities"]
            outKey == [i \in 1..Len(out) |-> NormalizedKey(out[i])]
        IN  /\ \A i, j \in 1..Len(out) : i # j => outKey[i] # outKey[j]
            /\ Len(out) = Cardinality(KeysOf(RawKeyAt))

\* C8: the list holds one record per normalized key of the raw entities, and for
\* every such key a record with the key's title-cased name and type, a count equal
\* to the number of raw entities of that key, and a source_urls list without
\* duplicates whose elements are the urls of those raw entities.
C8_CountAndUrls ==
    SummarizeFinished =>
        LET out == update["summarized_entities"]
            keyAt == RawKeyAt
        IN  /\ Len(out) = Cardinality(KeysOf(keyAt))
            /\ \A k \in KeysOf(keyAt) :
                 LET urls == {RawEntities[i].source_document_url : i \in Mentions(keyAt, k)}
                 IN  \E j \in 1..Len(out) :
                        /\ out[j].name = Title(k[1])
                        /\ out[j].type = Title(k[2])
                        /\ out[j].count = Cardinality(Mentions(keyAt, k))
                        /\ {out[j].source_urls[u] : u \in 1..Len(out[j].source_urls)} = urls
                        /\ Len(out[j].source_urls) = Cardinality(urls)

\* three mentions of one entity in differing letter case, from u1, u1 and u2, gave
\* one record with count 3 and the two urls
C8_Witness ==
    /\ SummarizeFinished
    /\ RawEntities = <<ExtractedEntity(Tesla, Company, "u1"),
                       ExtractedEntity(tesla, company, "u1"),
                       ExtractedEntity(TeslaCaps, Company, "u2")>>
    /\ Len(update["summarized_entities"]) = 1
    /\ update["summarized_entities"][1].name = Tesla
    /\ update["summarized_entities"][1].type = Company
    /\ update["summarized_entities"][1].count = 3
    /\ Len(update["summarized_entities"][1].source_urls) = 2

\* the place of key k in the order by count descending, first mention ascending
Rank(keyAt, k) ==
    1 + Cardinality({other \in KeysOf(keyAt) :
            \/ Cardinality(Mentions(keyAt, other)) > Cardinality(Mentions(keyAt, k))
            \/ /\ Cardinality(Mentions(keyAt, other)) = Cardinality(Mentions(keyAt, k))
               /\ FirstMention(keyAt, other) < FirstMention(keyAt, k)})

\* C9: the list is ordered by count descending, and records of equal count are in
\* the order in which their keys were first met among the raw entities: the
\* record at the rank of each key is that key's record.
C9_SortOrder ==
    SummarizeFinished =>
        LET out == update["summarized_entities"]
            keyAt == RawKeyAt
        IN  /\ Len(out) = Cardinality(KeysOf(keyAt))
            /\ \A i, j \in 1..Len(out) : i < j => out[i].count >= out[j].count
            /\ \A k \in KeysOf(keyAt) :
                 /\ out[Rank(keyAt, k)].name = Title(k[1])
                 /\ out[Rank(keyAt, k)].type = Title(k[2])
                 /\ out[Rank(keyAt, k)].count = Cardinality(Mentions(keyAt, k))

\* keys met in the order A, B, C with counts 1, 2, 1 were returned as B, A, C
C9_Witness ==
    /\ SummarizeFinished
    /\ RawEntities = <<ExtractedEntity(BetaInc, Company, "u2"),
                       ExtractedEntity(Tesla, Company, "u1"),
                       ExtractedEntity(tesla, company, "u1"),
                       ExtractedEntity(Irmak, Person, "u1")>>
    /\ Len(update["summarized_entities"]) = 3
    /\ update["summarized_entities"][1].name = Tesla
    /\ update["summarized_entities"][2].name = BetaInc
    /\ update["summarized_entities"][3].name = Irmak

-----------------------------------------------------------------------------
(* relationship_extraction_agent: src/core/agents.py 195-247 *)

\* lines 207-209: the names of the summarized entities, then the subject's name
EntityNames(record) ==
    [i \in 1..Len(record["summarized_entities"]) |-> record["summarized_entities"][i].name]
    \o <<record["subject"].name>>

\* lines 229-233: the values the prompt template is filled with; i is the place of
\* the document in `documents`
RelPrompt(i, record) ==
    [doc |-> i,
     entities |-> EntityNames(record),
     source_url |-> record["documents"][i].url,
     text |-> record["documents"][i].raw_content]

\* lines 204-211
RelEntry ==
    /\ node = "relationship_extraction" /\ pc = "entry"
    /\ all_relationships' = <<>>
    /\ calls' = <<>>
    /\ budget' = MaxRelationshipsReturned
    /\ idx' = 1
    /\ pc' = IF state["documents"] = <<>> THEN "return" ELSE "relate"
    /\ UNCHANGED <<node, channels, state, update, thread_state, executed,
                   all_found_documents, unique_urls, all_extracted_entities>>

\* a variant that keeps a returned triple only if it is not in the list yet
RECURSIVE ExtendNew(_, _)
ExtendNew(list, items) ==
    IF items = <<>> THEN list
    ELSE ExtendNew(IF \E i \in 1..Len(list) : list[i] = Head(items)
                   THEN list ELSE Append(list, Head(items)),
                   Tail(items))

\* line 238: all_relationships.extend(response.relationships)
Extend(list, items) == list \o items

\* lines 235-242: one structured extraction request. The call raises (caught,
\* nothing added) or returns a list of relationships, which is added as it is.
RelRequest ==
    \/ /\ calls' = Append(calls, Call("request", RelPrompt(idx, state), FALSE, <<>>))
       /\ UNCHANGED <<all_relationships, budget>>
    \/ \E relationships \in SeqsUpTo(RelPool, budget) :
         /\ calls' = Append(calls, Call("request", RelPrompt(idx, state), TRUE,
                                        relationships))
         /\ all_relationships' = Extend(all_relationships, relationships)
         /\ budget' = budget - Len(relationships)

\* lines 213-242: one iteration of the loop over documents_to_process. The text is
\* a value of the template, not a part of it: a brace in it is no fault.
RelDocument ==
    /\ node = "relationship_extraction" /\ pc = "relate"
    /\ RelRequest
    /\ idx' = idx + 1
    /\ pc' = IF idx < Len(state["documents"]) THEN "relate" ELSE "return"
    /\ UNCHANGED <<node, channels, state, update, thread_state, executed,
                   all_found_documents, unique_urls, all_extracted_entities>>

\* lines 244-247: the agent writes into the dict it was given and returns that dict
RelReturn ==
    /\ node = "relationship_extraction" /\ pc = "return"
    /\ state' = Put(state, "relationships", all_relationships)
    /\ update' = state'
    /\ pc' = "done"
    /\ UNCHANGED <<node, channels, thread_state, executed, all_found_documents,
                   unique_urls, idx, all_extracted_entities, all_relationships, calls,
                   budget>>

RelationshipExtraction == RelEntry \/ RelDocument \/ RelReturn

\* relationship_extraction_agent called on a given record
RelInit ==
    /\ \E documents \in SeqsUpTo(RelDocPool, MaxDocs), summary \in SummaryPool :
         state = [InitialThreadState(SubjectProfile(AcmeCorp))
                    EXCEPT !["documents"] = documents,
                           !["summarized_entities"] = summary]
    /\ channels = state
    /\ thread_state = state
    /\ node = "relationship_extraction"
    /\ pc = "entry"
    /\ NoLocals

RelSpec == RelInit /\ [][RelationshipExtraction]_vars

-----------------------------------------------------------------------------
(* risk_analysis_agent: src/core/agents.py 249-283 *)

\* lines 256-260: the categories in the dict's order, each with its keywords
risk_keywords ==
    <<[risk_type |-> "Legal",
       keywords |-> <<<<"l","a","w","s","u","i","t">>,
                     <<"s","u","e","d">>,
                     <<"l","e","g","a","l"," ","a","c","t","i","o","n">>,
                     <<"s","e","c"," ","i","n","v","e","s","t","i","g","a","t","i","o","n">>,
                     <<"s","e","t","t","l","e","m","e","n","t">>,
                     <<"c","o","u","r","t">>>>],
      [risk_type |-> "Financial",
       keywords |-> <<<<"b","a","n","k","r","u","p","t","c","y">>,
                     <<"d","e","b","t">>,
                     <<"f","i","n","a","n","c","i","a","l"," ","i","s","s","u","e","s">>,
                     <<"s","t","r","u","g","g","l","e","s">>>>],
      [risk_type |-> "Reputational",
       keywords |-> <<<<"c","o","n","t","r","o","v","e","r","s","y">>,
                     <<"s","c","a","n","d","a","l">>,
                     <<"c","r","i","t","i","c","i","s","m">>,
                     <<"c","o","m","p","l","a","i","n","t">>,
                     <<"a","l","l","e","g","a","t","i","o","n","s">>,
                     <<"a","n","t","i","s","e","m","i","t","i","c">>>>]>>

\* line 274: f"Document contains keyword: '{keyword}'"
Details(keyword) == [text |-> "Document contains keyword: ", keyword |-> keyword]

\* a variant without the break: a Risk for every keyword found
RECURSIVE KeywordRisksNoBreak(_, _, _, _)
KeywordRisksNoBreak(risk_type, keywords, content_lower, url) ==
    IF keywords = <<>> THEN <<>>
    ELSE (IF Contains(content_lower, Head(keywords))
          THEN <<Risk(risk_type, Details(Head(keywords)), url)>> ELSE <<>>)
         \o KeywordRisksNoBreak(risk_type, Tail(keywords), content_lower, url)

\* lines 269-279: the keywords of one category, up to the first one found
RECURSIVE KeywordRisks(_, _, _, _)
KeywordRisks(risk_type, keywords, content_lower, url) ==
    IF keywords = <<>> THEN <<>>
    ELSE IF Contains(content_lower, Head(keywords))
         THEN <<Risk(risk_type, Details(Head(keywords)), url)>>
         ELSE KeywordRisks(risk_type, Tail(keywords), content_lower, url)

\* line 268: the categories, in order
RECURSIVE CategoryRisks(_, _, _)
CategoryRisks(table, content_lower, url) ==
    IF table = <<>> THEN <<>>
    ELSE KeywordRisks(Head(table).risk_type, Head(table).keywords, content_lower, url)
         \o CategoryRisks(Tail(table), content_lower, url)

\* lines 266-279: the documents, in order
RECURSIVE FoundRisks(_)
FoundRisks(documents) ==
    IF documents = <<>> THEN <<>>
    ELSE CategoryRisks(risk_keywords, Lower(Head(documents).raw_content),
                       Head(documents).url)
         \o FoundRisks(Tail(documents))

\* lines 262-283: the agent writes into the dict it was given and returns that dict
RiskAnalysis ==
    /\ node = "risk_analysis" /\ pc = "entry"
    /\ state' = Put(state, "risks", FoundRisks(state["documents"]))
    /\ update' = state'
    /\ pc' = "done"
    /\ UNCHANGED <<all_relationships, node, channels, thread_state, executed, all_found_documents,
                   unique_urls, idx, all_extracted_entities, calls, budget>>

\* risk_analysis_agent called on a given record
RiskInit ==
    /\ \E documents \in SeqsUpTo(RiskPool, MaxDocs) :
         state = [InitialThreadState(SubjectProfile(AcmeCorp))
                    EXCEPT !["documents"] = documents]
    /\ channels = state
    /\ thread_state = state
    /\ node = "risk_analysis"
    /\ pc = "entry"
    /\ NoLocals

RiskSpec == RiskInit /\ [][RiskAnalysis]_vars

-----------------------------------------------------------------------------
(* Properties of risk_analysis_agent *)

RiskFinished == node = "risk_analysis" /\ pc = "done"

\* the positions, in a category's keyword list, of the keywords that are
\* substrings of the lower-cased text
Matches(category, text) ==
    LET lowered == Lower(text)
    IN  {n \in 1..Len(category.keywords) : Contains(lowered, category.keywords[n])}

\* the Risk expected for one document and one category: none, or the one naming
\* the matching keyword that comes first in the category's list
ExpectedRisk(doc, category) ==
    LET matches == Matches(category, doc.raw_content)
    IN  IF matches = {} THEN <<>>
        ELSE LET first == CHOOSE n \in matches : \A m \in matches : n <= m
             IN  <<Risk(category.risk_type, Details(category.keywords[first]), doc.url)>>

RECURSIVE ExpectedRisks(_, _)
ExpectedRisks(documents, c) ==
    IF documents = <<>> THEN <<>>
    ELSE IF c > Len(risk_keywords) THEN ExpectedRisks(Tail(documents), 1)
    ELSE ExpectedRisk(Head(documents), risk_keywords[c])
         \o ExpectedRisks(documents, c + 1)

\* C10: the agent's `risks` is, document by document and category by category,
\* one Risk where a keyword of the category occurs in the lower-cased text, naming
\* the first such keyword of the category's list, and nothing where none occurs;
\* so a document has at most one Risk per category.
C10_OneRiskPerCategory ==
    RiskFinished =>
        LET risks == update["risks"]
            documents == channels["documents"]
        IN  /\ risks = ExpectedRisks(documents, 1)
            /\ Len(risks) <= Len(documents) * Len(risk_keywords)
            /\ Len(documents) = 1 =>
                 \A i, j \in 1..Len(risks) :
                    i # j => risks[i].risk_type # risks[j].risk_type

\* a document with "sued", "lawsuit" and "DEBT" gave one Legal Risk, for
\* "lawsuit", and one Financial Risk
C10_Witness ==
    /\ RiskFinished
    /\ channels["documents"] = <<Document("u2", "second", TextLawsuit)>>
    /\ update["risks"] =
         <<Risk("Legal", Details(<<"l","a","w","s","u","i","t">>), "u2"),
           Risk("Financial", Details(<<"d","e","b","t">>), "u2")>>

-----------------------------------------------------------------------------
(* Properties of the merge of a stage's output: src/main.py 46-55 *)

\* record `after` is record `before` overwritten key by key with `upd`
Overwritten(before, upd, after) ==
    /\ DOMAIN after = (DOMAIN before) \cup (DOMAIN upd)
    /\ \A k \in DOMAIN after :
         IF k \in DOMAIN upd THEN after[k] = upd[k] ELSE after[k] = before[k]

\* C11: the step that merges a stage's output leaves every field whose key is not
\* in the update at its value, and gives every field whose key is in the update
\* the update's value, whole, in the run's record and in the graph's record.
C11_MergeOverwrites ==
    [][(node \in Nodes /\ pc = "done") =>
          /\ Overwritten(thread_state, update, thread_state')
          /\ Overwritten(channels, update, channels')]_vars

\* the output of entity extraction, which does not hold `documents`, was merged
\* into a record that held documents: they are still there, beside the entities
C11_Witness ==
    /\ executed = <<"web_search", "entity_extraction">>
    /\ DOMAIN update = {"extracted_entities"}
    /\ thread_state["documents"] # <<>>
    /\ thread_state["extracted_entities"] = update["extracted_entities"]
    /\ thread_state["extracted_entities"] # <<>>

-----------------------------------------------------------------------------
(* Further properties of web_search_agent *)

UrlsOf(docs) == {docs[i].url : i \in 1..Len(docs)}

\* the deep-search phase was entered: its first wait is in the log
Phase2Entered == node = "web_search" /\ Sleeps(calls) # {}

\* C12: whatever deep-search requests fail, the angles requested so far are the
\* first angles of the fixed order, each once; the documents found so far are
\* documents the service returned and cover every url returned by the broad
\* request and by the angles that did not fail; and when the agent returns after
\* phase 2, all angles have been requested and `documents` covers those urls.
C12_AngleFailureIsolation ==
    (node = "web_search" /\ calls # <<>>) =>
        LET returned == Returned(calls)
            deep == DeepRequests(calls)
        IN  /\ Len(deep) <= Len(search_angles)
            /\ deep = SubSeq(search_angles, 1, Len(deep))
            /\ UrlsOf(all_found_documents) = UrlsOf(returned)
            /\ \A i \in 1..Len(all_found_documents) :
                 \E k \in 1..Len(returned) : returned[k] = all_found_documents[i]
            /\ (SearchFinished /\ Phase2Entered) =>
                 /\ deep = search_angles
                 /\ UrlsOf(update["documents"]) = UrlsOf(returned)

\* the broad request gave a document, the first and the third angle failed, the
\* second angle gave a document with a new url, and the agent returned both
C12_Witness ==
    /\ SearchFinished
    /\ Len(calls) = 7
    /\ calls[1].ok /\ Len(calls[1].results) = 1
    /\ ~calls[3].ok
    /\ calls[5].ok /\ Len(calls[5].results) = 1
    /\ calls[5].results[1].url # calls[1].results[1].url
    /\ ~calls[7].ok
    /\ update["documents"] = calls[1].results \o calls[5].results

-----------------------------------------------------------------------------
(* Properties of what a stage returns *)

\* the field each stage is responsible for
OwnedField(n) ==
    CASE n = "web_search" -> "documents"
      [] n = "entity_extraction" -> "extracted_entities"
      [] n = "summarize_entities" -> "summarized_entities"
      [] n = "relationship_extraction" -> "relationships"
      [] n = "risk_analysis" -> "risks"

\* C13 as claimed: when a stage of the pipeline has returned, what it returned
\* holds the field the stage owns and no other, and the record the stage was
\* called with is what it was at the call (the graph's record, which only a
\* merge changes).
C13_PartialUpdateInputUntouched ==
    (node \in Nodes /\ pc = "done") =>
        /\ DOMAIN update = {OwnedField(node)}
        /\ state = channels

-----------------------------------------------------------------------------
(* Further properties of entity_extraction_agent *)

\* C14: a call of entity_extraction_agent never has more requests behind it than the
\* smaller of the number of documents and the configured maximum; its i-th request is for
\* the i-th document; and when it returns it has made exactly that many requests
\* and its `extracted_entities` holds what those requests returned, nothing else.
C14_CapOnRequests ==
    (node \in {"entity_extraction", "aborted"} /\ pc # "entry") =>
        LET n == Len(channels["documents"])
            cap == IF n < MAX_DOCS_TO_PROCESS THEN n ELSE MAX_DOCS_TO_PROCESS
        IN  /\ Len(calls) <= cap
            /\ \A i \in 1..Len(calls) : calls[i].op = "request" /\ calls[i].query = i
            /\ ExtractFinished =>
                 /\ Len(calls) = cap
                 /\ update["extracted_entities"] = Returned(calls)

\* four documents were given, the fourth with a brace in its text: the agent
\* returned after three requests, the third of which gave entities
C14_Witness ==
    /\ ExtractFinished
    /\ Len(channels["documents"]) = MAX_DOCS_TO_PROCESS + 1
    /\ channels["documents"][MAX_DOCS_TO_PROCESS + 1].raw_content = TextBraces
    /\ Len(calls) = MAX_DOCS_TO_PROCESS
    /\ calls[MAX_DOCS_TO_PROCESS].ok
    /\ calls[MAX_DOCS_TO_PROCESS].results # <<>>

\* C15: in the log of web_search_agent every deep-search request, also the first
\* and also one after a failed request, comes directly after a wait for its
\* angle, every wait comes directly after a finished request, and there are as
\* many waits as deep-search requests, plus the one whose request is due.
C15_WaitBeforeEachAngle ==
    (node = "web_search" /\ pc # "entry") =>
        /\ \A i \in 1..Len(calls) :
             /\ (calls[i].op = "request" /\ calls[i].query # "broad") =>
                   /\ i > 1
                   /\ calls[i - 1].op = "sleep"
                   /\ calls[i - 1].query = calls[i].query
             /\ calls[i].op = "sleep" =>
                   /\ i > 1
                   /\ calls[i - 1].op = "request"
        /\ Cardinality(Sleeps(calls)) =
             Len(DeepRequests(calls)) + (IF pc = "deep" THEN 1 ELSE 0)

\* the first angle failed, a wait followed it, then the second angle's request;
\* the agent returned after three waits and three deep-search requests
C15_Witness ==
    /\ SearchFinished
    /\ Len(calls) = 7
    /\ calls[2].op = "sleep"
    /\ calls[3].op = "request" /\ ~calls[3].ok
    /\ calls[4].op = "sleep"
    /\ calls[5].op = "request"
    /\ Cardinality(Sleeps(calls)) = 3
    /\ Len(DeepRequests(calls)) = 3

-----------------------------------------------------------------------------
(* Properties of relationship_extraction_agent *)

RelFinished == node = "relationship_extraction" /\ pc = "done"

\* the relationships the service returned, in request order, each with the url of
\* the document its request was made for in place of the url the service wrote
RECURSIVE Tagged(_)
Tagged(log) ==
    IF log = <<>> THEN <<>>
    ELSE (IF Head(log).ok
          THEN [i \in 1..Len(Head(log).results) |->
                   [Head(log).results[i]
                      EXCEPT !.source_document_url = Head(log).query.source_url]]
          ELSE <<>>)
         \o Tagged(Tail(log))

\* C16 as claimed: when relationship_extraction_agent has returned, every record
\* of `relationships` carries the url of the document whose request produced it,
\* whatever url the service wrote into it.
C16_TaggedWithDocumentUrl ==
    RelFinished => update["relationships"] = Tagged(calls)

\* C17: relationship_extraction_agent makes one request per document, in order,
\* however many documents there are; while it runs and when it has returned, its
\* relationships are the concatenation, in that order, of what the requests that
\* did not fail returned, repeated triples included.
C17_RelFailureIsolation ==
    LET documents == channels["documents"]
    IN  /\ (node = "relationship_extraction" /\ pc \in {"relate", "return"}) =>
            all_relationships = Returned(calls)
        /\ RelFinished =>
            /\ Len(calls) = Len(documents)
            /\ \A i \in 1..Len(calls) :
                 /\ calls[i].op = "request"
                 /\ calls[i].query.doc = i
                 /\ calls[i].query.source_url = documents[i].url
            /\ update["relationships"] = Returned(calls)

\* four documents, more than the cap of entity extraction: the request of the
\* second failed, the first and the third returned the same triple, the fourth
\* nothing, and the agent returned that triple twice
C17_Witness ==
    /\ RelFinished
    /\ Len(channels["documents"]) = MAX_DOCS_TO_PROCESS + 1
    /\ Len(calls) = MAX_DOCS_TO_PROCESS + 1
    /\ calls[1].ok /\ Len(calls[1].results) = 1
    /\ ~calls[2].ok
    /\ calls[3].ok /\ calls[3].results = calls[1].results
    /\ calls[1].query.source_url # calls[3].query.source_url
    /\ update["relationships"] = calls[1].results \o calls[3].results

-----------------------------------------------------------------------------
(* Properties of the fields of the record along a run *)

\* field k has the same value in record `after` as in record `before`
Kept(before, after, k) == k \in DOMAIN after /\ after[k] = before[k]

HasRun(n) == \E i \in 1..Len(executed) : executed[i] = n

\* C18: no step of a run changes `subject`, in the run's record, in the graph's
\* record or in the dict a stage works on; once the search stage has completed,
\* `documents` is what that stage returned and no step changes it, up to the
\* terminal state; and no step of a later stage, nor the merge of its output,
\* changes a field other than the one the stage owns.
C18_SubjectAndDocumentsKept ==
    [][/\ Kept(thread_state, thread_state', "subject")
       /\ Kept(channels, channels', "subject")
       /\ "subject" \in DOMAIN state => Kept(state, state', "subject")
       /\ HasRun("web_search") =>
            /\ thread_state["documents"] = all_found_documents
            /\ Kept(thread_state, thread_state', "documents")
            /\ Kept(channels, channels', "documents")
            /\ Kept(state, state', "documents")
       /\ (node \in Nodes /\ node # "web_search") =>
            \A k \in DOMAIN state \ {OwnedField(node)} :
                /\ Kept(state, state', k)
                /\ Kept(thread_state, thread_state', k)
                /\ Kept(channels, channels', k)]_vars

\* a run for Elon Musk is at the terminal state; the last stage returned the whole
\* record, and `documents` is still the non-empty list the search stage returned
C18_Witness ==
    /\ node = "__end__"
    /\ executed = CompiledStages
    /\ "documents" \in DOMAIN update
    /\ all_found_documents # <<>>
    /\ thread_state["documents"] = all_found_documents
    /\ thread_state["extracted_entities"] # <<>>
    /\ thread_state["subject"] = SubjectProfile(ElonMusk)

-----------------------------------------------------------------------------
(* web_search_agent after a failed broad request *)

BroadFailed ==
    /\ node = "web_search" /\ calls # <<>>
    /\ calls[1].query = "broad"
    /\ ~calls[1].ok

\* C19: after a broad request that failed the agent goes on to the gate with no
\* document found; it enters the deep search only for a name on the allow-list;
\* and when it returns, it has requested all the angles if the name is on the
\* allow-list, and otherwise it has made no further request and returns an empty
\* `documents`.
C19_BroadFailureGate ==
    BroadFailed =>
        /\ pc \in {"gate", "sleep", "deep", "return", "done"}
        /\ Len(calls) = 1 => all_found_documents = <<>>
        /\ pc \in {"sleep", "deep"} => NameOnAllowList
        /\ SearchFinished =>
             IF NameOnAllowList
             THEN DeepRequests(calls) = search_angles
             ELSE Len(calls) = 1 /\ update["documents"] = <<>>

\* the broad request failed for Elon Musk, all angles were requested, and the
\* agent returned the documents the angles gave
C19_Witness ==
    /\ SearchFinished
    /\ BroadFailed
    /\ state["subject"].name = ElonMusk
    /\ DeepRequests(calls) = search_angles
    /\ update["documents"] # <<>>

-----------------------------------------------------------------------------
(* Further properties of summarize_entities_agent *)

RECURSIVE SumOfCounts(_)
SumOfCounts(list) ==
    IF list = <<>> THEN 0 ELSE Head(list).count + SumOfCounts(Tail(list))

\* C20: the counts of the records summarize_entities_agent returns add up to the
\* number of raw entities it was given, and every record has a count of at least
\* 1 and a source_urls list that holds no url twice and has at least one and at
\* most count elements.
C20_CountsSumToRaw ==
    SummarizeFinished =>
        LET out == update["summarized_entities"]
        IN  /\ SumOfCounts(out) = Len(RawEntities)
            /\ \A j \in 1..Len(out) :
                 LET urls == out[j].source_urls
                 IN  /\ out[j].count >= 1
                     /\ \A a, b \in 1..Len(urls) : a # b => urls[a] # urls[b]
                     /\ 1 <= Len(urls)
                     /\ Len(urls) <= out[j].count

\* four raw entities gave two records: one of count 3 with two urls, one of count 1
C20_Witness ==
    /\ SummarizeFinished
    /\ Len(RawEntities) = 4
    /\ Len(update["summarized_entities"]) = 2
    /\ update["summarized_entities"][1].count = 3
    /\ Len(update["summarized_entities"][1].source_urls) = 2
    /\ update["summarized_entities"][2].count = 1

====
